---------------------------- MODULE Spec2Model ----------------------------
(***************************************************************************)
(* Storage quota monitoring of insidebar-ai (modules/storage-monitor.js)   *)
(* and the save workflow that uses it (ARCHITECTURE.md, "Saving            *)
(* Conversation" and "Storage Quota Monitoring").                          *)
(*                                                                         *)
(* Storage sizes are natural numbers of abstract storage units.  The code  *)
(* computes percentUsed = (usage / quota) * 100 in IEEE doubles and        *)
(* compares it with 80, 90, 95 and 100; for byte counts below 2^50 these   *)
(* comparisons agree with the exact rational ones, so a percentage is kept *)
(* here as the fraction num/den and compared by cross-multiplication.      *)
(***************************************************************************)
EXTENDS Integers, FiniteSets, Sequences

(* ------------------------------ bounds -------------------------------- *)

\* Largest capacity (estimate.quota) the host reports.
MaxQuota == 20
\* The host may report up to MaxQuota + OverUse units in use.
OverUse == 2
\* Largest estimatedSize handed to canPerformStorageOperation.
MaxSize == 3
\* Capacity of the store in the save workflow.
SaveQuota == 5
\* Longest string (in UTF-16 code units) inside a record whose size is estimated.
MaxLen == 2

(* ------------------------- program constants -------------------------- *)

\* QUOTA_THRESHOLDS.WARNING, .CRITICAL, .DANGER
WARNING == 80
CRITICAL == 90
DANGER == 95
\* projectedPercent >= 100
FULL == 100
\* "up to 3 attempts"
MAX_ATTEMPTS == 3

(* ------------------------------ values -------------------------------- *)

\* A field the host's estimate leaves out (JavaScript undefined).
Undefined == -1

MaxUsage == MaxQuota + OverUse
HostUsages == {Undefined} \cup 0..MaxUsage
HostQuotas == {Undefined} \cup 0..MaxQuota
\* estimatedSize: a call without the argument is <<>>, with it <<n>>.
SizeArgs == {<<>>} \cup {<<n>> : n \in (0 - 1)..MaxSize}

Percent(num, den) == [num |-> num, den |-> den]
\* percent >= threshold, exactly.
PercentGE(p, threshold) == p.num >= threshold * p.den

\* JavaScript null, in the shape of a QuotaInfo so that values compare.
Null ==
  [tag |-> "null", usage |-> 0, quota |-> 0, percentUsed |-> Percent(0, 1),
   level |-> "none"]
IsNull(quotaInfo) == quotaInfo.tag = "null"

\* A message text with the figures formatted into it.
Message(text, quotaInfo) ==
  [text |-> text, usageMB |-> quotaInfo.usage, quotaMB |-> quotaInfo.quota,
   percentUsed |-> quotaInfo.percentUsed]
ConsoleEntry(kind, msg) == [kind |-> kind, msg |-> msg]

(* ------------------------------- state -------------------------------- *)

VARIABLES
  storageApi,   \* navigator.storage and navigator.storage.estimate exist
  estimateOk,   \* navigator.storage.estimate() resolves (FALSE: it rejects)
  hostUsage,    \* estimate.usage
  hostQuota,    \* estimate.quota
  notifApi,     \* chrome.notifications exists
  notifOk,      \* chrome.notifications.create() resolves (FALSE: it rejects)
  call,         \* the last call of the module's API and its outcome
  console,      \* console entries written by the last call
  notif,        \* the notification created by the last call
  writers       \* the overlapping saves of the save workflow

hostVars == <<storageApi, estimateOk, hostUsage, hostQuota, notifApi, notifOk>>
vars == <<storageApi, estimateOk, hostUsage, hostQuota, notifApi, notifOk,
          call, console, notif, writers>>

(* --------------------------- storage-monitor -------------------------- *)

\* a || 0
OrZero(a) == IF a = Undefined \/ a = 0 THEN 0 ELSE a

GetQuotaLevel_StrictDanger(percentUsed) ==
  IF percentUsed.num > DANGER * percentUsed.den THEN "danger"
  ELSE IF PercentGE(percentUsed, CRITICAL) THEN "critical"
  ELSE IF PercentGE(percentUsed, WARNING) THEN "warning"
  ELSE "safe"

GetQuotaLevel_SwappedThresholds(percentUsed) ==
  IF PercentGE(percentUsed, DANGER) THEN "danger"
  ELSE IF PercentGE(percentUsed, WARNING) THEN "critical"
  ELSE IF PercentGE(percentUsed, CRITICAL) THEN "warning"
  ELSE "safe"

GetQuotaLevel_CappedDanger(percentUsed) ==
  IF PercentGE(percentUsed, DANGER) /\ percentUsed.num <= FULL * percentUsed.den THEN "danger"
  ELSE IF PercentGE(percentUsed, CRITICAL) THEN "critical"
  ELSE IF PercentGE(percentUsed, WARNING) THEN "warning"
  ELSE "safe"

GetQuotaLevel(percentUsed) ==
  IF PercentGE(percentUsed, DANGER) THEN "danger"
  ELSE IF PercentGE(percentUsed, CRITICAL) THEN "critical"
  ELSE IF PercentGE(percentUsed, WARNING) THEN "warning"
  ELSE "safe"

\* await navigator.storage.estimate()
Estimate ==
  IF estimateOk
    THEN [rejected |-> FALSE, usage |-> hostUsage, quota |-> hostQuota]
    ELSE [rejected |-> TRUE, usage |-> Undefined, quota |-> Undefined]

QuotaInfo(usage, quota) ==
  LET percentUsed == Percent(usage * 100, quota)
  IN  [tag |-> "QuotaInfo", usage |-> usage, quota |-> quota,
       percentUsed |-> percentUsed, level |-> GetQuotaLevel(percentUsed)]

\* The outcome of a call: raised (threw or rejected) or returned `value`,
\* with the console entries it wrote and the notification it created.
NoNotification ==
  [state |-> "none", title |-> "", message |-> Message("", Null), priority |-> 0,
   catch |-> FALSE]
Outcome(raised, value, entries, notification) ==
  [raised |-> raised, value |-> value, console |-> entries, notif |-> notification]
Returned(value, entries) == Outcome(FALSE, value, entries, NoNotification)
Raised(entries) == Outcome(TRUE, Null, entries, NoNotification)

ApiMissingEntry ==
  ConsoleEntry("warn", Message("[Storage Monitor] Storage API not available", Null))
QuotaErrorEntry ==
  ConsoleEntry("error", Message("[Storage Monitor] Error checking quota:", Null))

CheckStorageQuota_NoZeroCheck ==
  IF ~storageApi THEN Returned(Null, {ApiMissingEntry})
  ELSE LET estimate == Estimate
           usage == OrZero(estimate.usage)
           quota == OrZero(estimate.quota)
       IN  IF estimate.rejected THEN Returned(Null, {QuotaErrorEntry})
           ELSE Returned(QuotaInfo(usage, quota), {})

CheckStorageQuota_UsageRequired ==
  IF ~storageApi THEN Returned(Null, {ApiMissingEntry})
  ELSE LET estimate == Estimate
           usage == OrZero(estimate.usage)
           quota == OrZero(estimate.quota)
       IN  IF estimate.rejected THEN Returned(Null, {QuotaErrorEntry})
           ELSE IF quota = 0 \/ estimate.usage = Undefined THEN Returned(Null, {})
           ELSE Returned(QuotaInfo(usage, quota), {})

CheckStorageQuota ==
  IF ~storageApi THEN Returned(Null, {ApiMissingEntry})
  ELSE LET estimate == Estimate
           usage == OrZero(estimate.usage)
           quota == OrZero(estimate.quota)
       IN  IF estimate.rejected THEN Returned(Null, {QuotaErrorEntry})
           ELSE IF quota = 0 THEN Returned(Null, {})
           ELSE Returned(QuotaInfo(usage, quota), {})

GetStorageStatusMessage(quotaInfo) ==
  IF IsNull(quotaInfo)
    THEN Message("Storage usage information not available", Null)
  ELSE IF quotaInfo.level = "danger"
    THEN Message("Storage critically full! Delete old data immediately to prevent save failures.", quotaInfo)
  ELSE IF quotaInfo.level = "critical"
    THEN Message("Storage almost full. Consider deleting old conversations or prompts.", quotaInfo)
  ELSE IF quotaInfo.level = "warning"
    THEN Message("Storage usage high.", quotaInfo)
  ELSE Message("Storage:", quotaInfo)

Admission(allowed, reason, quotaInfo) ==
  [allowed |-> allowed, reason |-> reason, quotaInfo |-> quotaInfo]

\* estimatedSize = 0 is the default of an omitted argument.
EstimatedSize(args) == IF args = <<>> THEN 0 ELSE args[1]

CanPerformStorageOperation_DangerNeedsSize(args) ==
  LET estimatedSize == EstimatedSize(args)
      checked == CheckStorageQuota
      quotaInfo == checked.value
  IN  IF checked.raised THEN Raised(checked.console)
      ELSE IF IsNull(quotaInfo)
        THEN Returned(Admission(TRUE, "Quota information not available, proceeding", Null),
                      checked.console)
      ELSE IF estimatedSize > 0 /\ quotaInfo.level = "danger"
        THEN Returned(Admission(FALSE, "Storage critically full. Delete old data before saving.",
                                quotaInfo), checked.console)
      ELSE IF estimatedSize > 0
              /\ PercentGE(Percent((quotaInfo.usage + estimatedSize) * 100, quotaInfo.quota), FULL)
        THEN Returned(Admission(FALSE, "Operation would exceed storage quota. Free up space before saving.",
                                quotaInfo), checked.console)
      ELSE Returned(Admission(TRUE, "Storage available", quotaInfo), checked.console)

CanPerformStorageOperation_StrictlyOver(args) ==
  LET estimatedSize == EstimatedSize(args)
      checked == CheckStorageQuota
      quotaInfo == checked.value
  IN  IF checked.raised THEN Raised(checked.console)
      ELSE IF IsNull(quotaInfo)
        THEN Returned(Admission(TRUE, "Quota information not available, proceeding", Null),
                      checked.console)
      ELSE IF quotaInfo.level = "danger"
        THEN Returned(Admission(FALSE, "Storage critically full. Delete old data before saving.",
                                quotaInfo), checked.console)
      ELSE IF estimatedSize > 0
              /\ (quotaInfo.usage + estimatedSize) * 100 > FULL * quotaInfo.quota
        THEN Returned(Admission(FALSE, "Operation would exceed storage quota. Free up space before saving.",
                                quotaInfo), checked.console)
      ELSE Returned(Admission(TRUE, "Storage available", quotaInfo), checked.console)

CanPerformStorageOperation_FailClosed(args) ==
  LET estimatedSize == EstimatedSize(args)
      checked == CheckStorageQuota
      quotaInfo == checked.value
  IN  IF checked.raised THEN Raised(checked.console)
      ELSE IF IsNull(quotaInfo)
        THEN Returned(Admission(FALSE, "Quota information not available", Null),
                      checked.console)
      ELSE IF quotaInfo.level = "danger"
        THEN Returned(Admission(FALSE, "Storage critically full. Delete old data before saving.",
                                quotaInfo), checked.console)
      ELSE IF estimatedSize > 0
              /\ PercentGE(Percent((quotaInfo.usage + estimatedSize) * 100, quotaInfo.quota), FULL)
        THEN Returned(Admission(FALSE, "Operation would exceed storage quota. Free up space before saving.",
                                quotaInfo), checked.console)
      ELSE Returned(Admission(TRUE, "Storage available", quotaInfo), checked.console)

CanPerformStorageOperation_WarnsOnDenial(args) ==
  LET estimatedSize == EstimatedSize(args)
      checked == CheckStorageQuota
      quotaInfo == checked.value
      warned == checked.console \cup {ConsoleEntry("warn", GetStorageStatusMessage(quotaInfo))}
  IN  IF checked.raised THEN Raised(checked.console)
      ELSE IF IsNull(quotaInfo)
        THEN Returned(Admission(TRUE, "Quota information not available, proceeding", Null),
                      checked.console)
      ELSE IF quotaInfo.level = "danger"
        THEN Returned(Admission(FALSE, "Storage critically full. Delete old data before saving.",
                                quotaInfo), warned)
      ELSE IF estimatedSize > 0
              /\ PercentGE(Percent((quotaInfo.usage + estimatedSize) * 100, quotaInfo.quota), FULL)
        THEN Returned(Admission(FALSE, "Operation would exceed storage quota. Free up space before saving.",
                                quotaInfo), warned)
      ELSE Returned(Admission(TRUE, "Storage available", quotaInfo), checked.console)

CanPerformStorageOperation(args) ==
  LET estimatedSize == EstimatedSize(args)
      checked == CheckStorageQuota
      quotaInfo == checked.value
  IN  IF checked.raised THEN Raised(checked.console)
      ELSE IF IsNull(quotaInfo)
        THEN Returned(Admission(TRUE, "Quota information not available, proceeding", Null),
                      checked.console)
      ELSE IF quotaInfo.level = "danger"
        THEN Returned(Admission(FALSE, "Storage critically full. Delete old data before saving.",
                                quotaInfo), checked.console)
      ELSE IF estimatedSize > 0
              /\ PercentGE(Percent((quotaInfo.usage + estimatedSize) * 100, quotaInfo.quota), FULL)
        THEN Returned(Admission(FALSE, "Operation would exceed storage quota. Free up space before saving.",
                                quotaInfo), checked.console)
      ELSE Returned(Admission(TRUE, "Storage available", quotaInfo), checked.console)

\* chrome.notifications.create({...}): the promise is pending until the host
\* settles it; `catch` tells whether a rejection handler is attached to it.
Notification(message, quotaInfo, catch) ==
  [state |-> "pending", title |-> "Storage Warning", message |-> message,
   priority |-> IF quotaInfo.level = "danger" THEN 2 ELSE 1, catch |-> catch]

StatusEntry(message) == ConsoleEntry("warn", message)

ShowStorageWarning_NoCatch(quotaInfo) ==
  IF IsNull(quotaInfo) \/ quotaInfo.level = "safe" THEN Returned(Null, {})
  ELSE LET message == GetStorageStatusMessage(quotaInfo)
       IN  IF notifApi
             THEN Outcome(FALSE, Null, {}, Notification(message, quotaInfo, FALSE))
             ELSE Returned(Null, {StatusEntry(message)})

ShowStorageWarning_SilentWithoutApi(quotaInfo) ==
  IF IsNull(quotaInfo) \/ quotaInfo.level = "safe" THEN Returned(Null, {})
  ELSE LET message == GetStorageStatusMessage(quotaInfo)
       IN  IF notifApi
             THEN Outcome(FALSE, Null, {}, Notification(message, quotaInfo, TRUE))
             ELSE Returned(Null, {})

ShowStorageWarning(quotaInfo) ==
  IF IsNull(quotaInfo) \/ quotaInfo.level = "safe" THEN Returned(Null, {})
  ELSE LET message == GetStorageStatusMessage(quotaInfo)
       IN  IF notifApi
             THEN Outcome(FALSE, Null, {}, Notification(message, quotaInfo, TRUE))
             ELSE Returned(Null, {StatusEntry(message)})

MonitorStorageQuota_DangerOnly ==
  LET checked == CheckStorageQuota
      quotaInfo == checked.value
  IN  IF checked.raised THEN Raised(checked.console)
      ELSE IF ~IsNull(quotaInfo) /\ quotaInfo.level = "danger"
        THEN LET shown == ShowStorageWarning(quotaInfo)
             IN  Outcome(shown.raised, IF shown.raised THEN Null ELSE quotaInfo,
                         checked.console \cup shown.console, shown.notif)
      ELSE Returned(quotaInfo, checked.console)

MonitorStorageQuota ==
  LET checked == CheckStorageQuota
      quotaInfo == checked.value
  IN  IF checked.raised THEN Raised(checked.console)
      ELSE IF ~IsNull(quotaInfo) /\ quotaInfo.level # "safe"
        THEN LET shown == ShowStorageWarning(quotaInfo)
             IN  Outcome(shown.raised, IF shown.raised THEN Null ELSE quotaInfo,
                         checked.console \cup shown.console, shown.notif)
      ELSE Returned(quotaInfo, checked.console)

(* ------------------------- calls of the module ------------------------ *)

\* The in-process caller (service worker, options page) makes one call of
\* the module at a time and lets its effects settle; the host may change
\* between calls.
NoCall == [op |-> "none", args |-> <<>>, quotaInfo |-> Null, result |-> Returned(Null, {})]
Idle == call.op = "none"

Writers == {"w1", "w2"}
IdleWriter ==
  [pc |-> "idle", size |-> 0, admission |-> Admission(FALSE, "", Null),
   attempts |-> 0, error |-> "none", monitored |-> FALSE]

Init ==
  /\ storageApi = TRUE /\ estimateOk = TRUE
  /\ hostUsage = 0 /\ hostQuota = MaxQuota
  /\ notifApi = TRUE /\ notifOk = TRUE
  /\ call = NoCall /\ console = {} /\ notif = NoNotification
  /\ writers = [w \in Writers |-> IdleWriter]

\* What the caller passes as quotaInfo: a result of checkStorageQuota().
CallerQuotaInfos ==
  {Null} \cup {QuotaInfo(u, q) : u \in {OrZero(hostUsage)}, q \in {OrZero(hostQuota)} \ {0}}

Complete(op, args, quotaInfo, result) ==
  /\ Idle
  /\ call' = [op |-> op, args |-> args, quotaInfo |-> quotaInfo, result |-> result]
  /\ console' = result.console
  /\ notif' = result.notif
  /\ UNCHANGED <<hostVars, writers>>

CallCheckStorageQuota ==
  Complete("checkStorageQuota", <<>>, Null, CheckStorageQuota)

CallCanPerformStorageOperation ==
  \E args \in SizeArgs :
    Complete("canPerformStorageOperation", args, Null, CanPerformStorageOperation(args))

CallGetStorageStatusMessage ==
  \E quotaInfo \in CallerQuotaInfos :
    Complete("getStorageStatusMessage", <<>>, quotaInfo,
             Returned(GetStorageStatusMessage(quotaInfo), {}))

CallShowStorageWarning ==
  \E quotaInfo \in CallerQuotaInfos :
    Complete("showStorageWarning", <<>>, quotaInfo, ShowStorageWarning(quotaInfo))

CallMonitorStorageQuota ==
  Complete("monitorStorageQuota", <<>>, Null, MonitorStorageQuota)

\* The promise of chrome.notifications.create settles; on rejection the
\* .catch handler of showStorageWarning falls back to the console, and a
\* promise without a handler is an unhandled rejection.
NotificationSettles ==
  /\ notif.state = "pending"
  /\ IF notifOk
       THEN /\ notif' = [notif EXCEPT !.state = "shown"]
            /\ console' = console
       ELSE IF notif.catch
       THEN /\ notif' = [notif EXCEPT !.state = "failed"]
            /\ console' = console \cup {StatusEntry(notif.message)}
       ELSE /\ notif' = [notif EXCEPT !.state = "unhandled"]
            /\ console' = console
  /\ UNCHANGED <<hostVars, call, writers>>

\* The caller is done with the outcome.
Return ==
  /\ ~Idle
  /\ notif.state # "pending"
  /\ call' = NoCall /\ console' = {} /\ notif' = NoNotification
  /\ UNCHANGED <<hostVars, writers>>

(* ------------------------------ the host ------------------------------ *)

HostStorageApi ==
  /\ Idle
  /\ storageApi' = ~storageApi
  /\ UNCHANGED <<estimateOk, hostUsage, hostQuota, notifApi, notifOk, call, console, notif, writers>>

HostEstimateOk ==
  /\ Idle
  /\ estimateOk' = ~estimateOk
  /\ UNCHANGED <<storageApi, hostUsage, hostQuota, notifApi, notifOk, call, console, notif, writers>>

HostNotifApi ==
  /\ Idle
  /\ notifApi' = ~notifApi
  /\ UNCHANGED <<storageApi, estimateOk, hostUsage, hostQuota, notifOk, call, console, notif, writers>>

HostNotifOk ==
  /\ Idle
  /\ notifOk' = ~notifOk
  /\ UNCHANGED <<storageApi, estimateOk, hostUsage, hostQuota, notifApi, call, console, notif, writers>>

HostUsage ==
  /\ Idle
  /\ \E u \in HostUsages \ {hostUsage} : hostUsage' = u
  /\ UNCHANGED <<storageApi, estimateOk, hostQuota, notifApi, notifOk, call, console, notif, writers>>

HostQuota ==
  /\ Idle
  /\ \E q \in HostQuotas \ {hostQuota} : hostQuota' = q
  /\ UNCHANGED <<storageApi, estimateOk, hostUsage, notifApi, notifOk, call, console, notif, writers>>

Next ==
  \/ CallCheckStorageQuota
  \/ CallCanPerformStorageOperation
  \/ CallGetStorageStatusMessage
  \/ CallShowStorageWarning
  \/ CallMonitorStorageQuota
  \/ NotificationSettles
  \/ Return
  \/ HostStorageApi
  \/ HostEstimateOk
  \/ HostNotifApi
  \/ HostNotifOk
  \/ HostUsage
  \/ HostQuota

Spec == Init /\ [][Next]_vars

(* ---------------------- claims about single calls --------------------- *)

\* The reading a call takes: the host does not change during a call.
ReadUsage == OrZero(hostUsage)
ReadQuota == OrZero(hostQuota)
\* The host can report usage and capacity.
QuotaAvailable == storageApi /\ estimateOk /\ ReadQuota > 0
\* usage / capacity * 100 >= t
UsedAtLeast(t) == ReadUsage * 100 >= t * ReadQuota

Called(op) == call.op = op
AdmissionCalled == Called("canPerformStorageOperation")
Allowed == ~call.result.raised /\ call.result.value.allowed
Denied == ~call.result.raised /\ ~call.result.value.allowed
GivenSize == EstimatedSize(call.args)

\* C1: whenever the reading of canPerformStorageOperation is at the danger
\* level (usage >= 95% of capacity) the call returns allowed = false, for
\* every estimatedSize: 0, negative, positive, or the argument left out.
C1_DangerDenies ==
  (AdmissionCalled /\ QuotaAvailable /\ UsedAtLeast(95)) =>
    (Denied /\ call.result.value.quotaInfo.level = "danger")

C1_Witness ==
  /\ AdmissionCalled /\ QuotaAvailable /\ UsedAtLeast(95)
  /\ call.args = <<>>
  /\ Denied

\* C2: with quota information available and the level below danger, a call
\* with estimatedSize > 0 is denied whenever usage + estimatedSize >= capacity
\* (a projected usage of exactly 100% is denied).
C2_ProjectedFullDenies ==
  (AdmissionCalled /\ QuotaAvailable /\ ~UsedAtLeast(95)
     /\ GivenSize > 0 /\ ReadUsage + GivenSize >= ReadQuota) => Denied

C2_Witness ==
  /\ AdmissionCalled /\ QuotaAvailable /\ ~UsedAtLeast(95)
  /\ GivenSize > 0 /\ ReadUsage + GivenSize = ReadQuota
  /\ Denied

\* C3: canPerformStorageOperation returns allowed = true exactly when quota
\* information is unavailable, or the level is below danger and
\* (estimatedSize <= 0 or usage + estimatedSize < capacity).
C3_AllowedExactly ==
  AdmissionCalled =>
    /\ ~call.result.raised
    /\ call.result.value.allowed <=>
         \/ ~QuotaAvailable
         \/ /\ ~UsedAtLeast(95)
            /\ (GivenSize <= 0 \/ ReadUsage + GivenSize < ReadQuota)

C3_Witness ==
  /\ AdmissionCalled /\ QuotaAvailable
  /\ UsedAtLeast(90) /\ ~UsedAtLeast(95)
  /\ GivenSize > 0 /\ ReadUsage + GivenSize = ReadQuota - 1
  /\ Allowed

\* C4: when checkStorageQuota yields no information, the admission call
\* returns allowed = true with quotaInfo = null for every estimatedSize;
\* every result with allowed = false carries a non-null quotaInfo.
C4_UnavailableAllows ==
  AdmissionCalled =>
    /\ ~QuotaAvailable => (Allowed /\ IsNull(call.result.value.quotaInfo))
    /\ Denied => ~IsNull(call.result.value.quotaInfo)

C4_Witness ==
  /\ AdmissionCalled /\ storageApi /\ ~estimateOk
  /\ GivenSize = MaxSize /\ ReadUsage >= ReadQuota /\ ReadQuota > 0
  /\ Allowed /\ IsNull(call.result.value.quotaInfo)

\* C5: checkStorageQuota classifies usage / capacity * 100 into exactly one
\* level: safe below 80, warning from 80 to below 90, critical from 90 to
\* below 95, danger from 95 on (also when usage exceeds capacity).
C5_LevelOfPercent ==
  (Called("checkStorageQuota") /\ QuotaAvailable) =>
    LET level == call.result.value.level
    IN  /\ ~call.result.raised
        /\ call.result.value.tag = "QuotaInfo"
        /\ level = "safe" <=> ~UsedAtLeast(80)
        /\ level = "warning" <=> (UsedAtLeast(80) /\ ~UsedAtLeast(90))
        /\ level = "critical" <=> (UsedAtLeast(90) /\ ~UsedAtLeast(95))
        /\ level = "danger" <=> UsedAtLeast(95)

C5_Witness ==
  /\ Called("checkStorageQuota") /\ QuotaAvailable
  /\ ReadUsage * 100 = 90 * ReadQuota
  /\ call.result.value.level = "critical"

\* C6: checkStorageQuota never raises; when the storage API is absent, the
\* estimate fails, or the reported capacity is 0 or missing, it returns null.
C6_UnavailableIsNull ==
  Called("checkStorageQuota") =>
    /\ ~call.result.raised
    /\ (~storageApi \/ ~estimateOk \/ hostQuota = 0 \/ hostQuota = Undefined)
         => IsNull(call.result.value)

C6_Witness ==
  /\ Called("checkStorageQuota")
  /\ storageApi /\ estimateOk /\ hostQuota = 0 /\ hostUsage > 0
  /\ ~call.result.raised /\ IsNull(call.result.value)

\* C9: monitorStorageQuota and showStorageWarning complete without raising
\* under every host behaviour: storage API missing, estimate failing,
\* notification API missing, notification creation failing.
C9_MonitorNeverRaises ==
  (Called("monitorStorageQuota") \/ Called("showStorageWarning")) =>
    /\ ~call.result.raised
    /\ notif.state # "unhandled"

C9_Witness ==
  /\ Called("monitorStorageQuota")
  /\ notifApi /\ ~notifOk /\ notif.state = "failed"
  /\ ~call.result.raised

\* A storage warning reached the user: a notification was created or the
\* status message was written to the console.
WarningEmitted ==
  \/ notif.state # "none"
  \/ \E e \in console : e.kind = "warn" /\ e # ApiMissingEntry

\* C10: monitorStorageQuota emits a storage warning exactly when quota
\* information is available and the level is warning, critical or danger
\* (usage >= 80%), and returns the reading it took (null when unavailable).
C10_WarnsExactlyAboveSafe ==
  Called("monitorStorageQuota") =>
    /\ WarningEmitted <=> (QuotaAvailable /\ UsedAtLeast(80))
    /\ ~call.result.raised
    /\ IF QuotaAvailable
         THEN /\ call.result.value.tag = "QuotaInfo"
              /\ call.result.value.usage = ReadUsage
              /\ call.result.value.quota = ReadQuota
         ELSE IsNull(call.result.value)

C10_Witness ==
  /\ Called("monitorStorageQuota") /\ QuotaAvailable
  /\ UsedAtLeast(80) /\ ~UsedAtLeast(90)
  /\ notif.state = "pending"
  /\ call.result.value.level = "warning"

(* --------------------------- the save workflow ------------------------ *)

\* saveConversation() of history-manager.js as ARCHITECTURE.md describes it:
\* validate input; check storage quota (canPerformStorageOperation); if
\* quota exceeded throw; sanitize and index; save to IndexedDB with retry
\* (up to 3 attempts); monitor quota after save.  Each await is a point
\* where another save of the same in-process caller may run.
SaveSizes == 1..MaxSize
PersistOutcomes == {"ok", "transient", "terminal"}

SetWriter(w, record) ==
  /\ writers' = [writers EXCEPT ![w] = record]
  /\ UNCHANGED call

\* Validate input (max lengths, required fields); no retry on failure.
SaveValidate(w, size, valid) ==
  /\ writers[w].pc = "idle"
  /\ SetWriter(w, IF valid
                    THEN [IdleWriter EXCEPT !.pc = "check", !.size = size]
                    ELSE [IdleWriter EXCEPT !.pc = "failed", !.size = size,
                                            !.error = "validation"])
  /\ UNCHANGED <<hostVars, console, notif>>

SaveCheckQuota_Skipped(w) ==
  /\ writers[w].pc = "check"
  /\ SetWriter(w, [writers[w] EXCEPT !.pc = "persist"])
  /\ UNCHANGED <<hostVars, console, notif>>

\* Check storage quota; if quota exceeded: throw error (immediate failure).
SaveCheckQuota(w) ==
  /\ writers[w].pc = "check"
  /\ LET result == CanPerformStorageOperation(<<writers[w].size>>)
     IN  /\ console' = result.console
         /\ SetWriter(w,
              IF result.raised
                THEN [writers[w] EXCEPT !.pc = "failed", !.error = "check"]
              ELSE IF result.value.allowed
                THEN [writers[w] EXCEPT !.pc = "persist", !.admission = result.value]
              ELSE [writers[w] EXCEPT !.pc = "failed", !.error = "quota",
                                      !.admission = result.value])
  /\ UNCHANGED <<hostVars, notif>>

\* Save to IndexedDB with retry logic (up to 3 attempts).  The host stores
\* the record only if it fits its capacity; a stored record grows the usage
\* by its size.
SavePersist(w, outcome) ==
  /\ writers[w].pc = "persist"
  /\ writers[w].attempts < MAX_ATTEMPTS
  /\ outcome = "ok" => hostUsage + writers[w].size <= hostQuota
  /\ LET attempts == writers[w].attempts + 1
     IN  IF outcome = "ok"
           THEN /\ hostUsage' = hostUsage + writers[w].size
                /\ SetWriter(w, [writers[w] EXCEPT !.pc = "monitor", !.attempts = attempts])
         ELSE IF outcome = "transient" /\ attempts < MAX_ATTEMPTS
           THEN /\ hostUsage' = hostUsage
                /\ SetWriter(w, [writers[w] EXCEPT !.attempts = attempts])
         ELSE /\ hostUsage' = hostUsage
              /\ SetWriter(w, [writers[w] EXCEPT !.pc = "failed", !.attempts = attempts,
                                                 !.error = "storage"])
  /\ UNCHANGED <<storageApi, estimateOk, hostQuota, notifApi, notifOk, console, notif>>

\* Monitor quota after save (monitorStorageQuota); the save has succeeded.
SaveMonitor(w) ==
  /\ writers[w].pc = "monitor"
  /\ notif.state # "pending"
  /\ LET result == MonitorStorageQuota
     IN  /\ console' = result.console
         /\ notif' = result.notif
         /\ SetWriter(w, [writers[w] EXCEPT !.pc = "done", !.monitored = TRUE])
  /\ UNCHANGED hostVars

\* The caller has the save's outcome.
SaveFinish(w) ==
  /\ writers[w].pc \in {"done", "failed"}
  /\ SetWriter(w, IdleWriter)
  /\ UNCHANGED <<hostVars, console, notif>>

\* The user deletes old conversations or prompts.
DeleteData ==
  /\ \E d \in 1..MaxSize : d <= hostUsage /\ hostUsage' = hostUsage - d
  /\ UNCHANGED <<storageApi, estimateOk, hostQuota, notifApi, notifOk,
                 call, console, notif, writers>>

SaveInit ==
  /\ storageApi = TRUE /\ estimateOk = TRUE
  /\ hostUsage = 0 /\ hostQuota = SaveQuota
  /\ notifApi = TRUE /\ notifOk = TRUE
  /\ call = NoCall /\ console = {} /\ notif = NoNotification
  /\ writers = [w \in Writers |-> IdleWriter]

SaveNext ==
  \/ \E w \in Writers, size \in SaveSizes, valid \in BOOLEAN : SaveValidate(w, size, valid)
  \/ \E w \in Writers : SaveCheckQuota(w)
  \/ \E w \in Writers, outcome \in PersistOutcomes : SavePersist(w, outcome)
  \/ \E w \in Writers : SaveMonitor(w)
  \/ \E w \in Writers : SaveFinish(w)
  \/ NotificationSettles
  \/ DeleteData

SaveSpec == SaveInit /\ [][SaveNext]_vars

(* -------------------- claims about the save workflow ------------------ *)

\* The save passed its admission check and has not written yet.
Admitted(w) ==
  /\ writers[w].pc = "persist"
  /\ writers[w].attempts = 0
  /\ writers[w].admission.allowed

\* C7: admission check and write are serialised per store: two overlapping
\* saves never both pass canPerformStorageOperation against the same usage
\* reading while their combined sizes bring usage to or beyond capacity.
C7_SerialisedAdmission ==
  \A w1, w2 \in Writers :
    (/\ w1 # w2
     /\ Admitted(w1) /\ Admitted(w2)
     /\ ~IsNull(writers[w1].admission.quotaInfo)
     /\ writers[w1].admission.quotaInfo = writers[w2].admission.quotaInfo)
    => writers[w1].admission.quotaInfo.usage + writers[w1].size + writers[w2].size
         < writers[w1].admission.quotaInfo.quota

\* The admission check of the save answered allowed = false.
SaveDenied(w) == writers[w].admission.reason # "" /\ ~writers[w].admission.allowed

\* C8: in the save workflow the admission check precedes persistence: no
\* save reaches the store unless canPerformStorageOperation returned
\* allowed = true for it, a denied save fails at once with a quota error
\* and without any persistence attempt, and monitorStorageQuota runs only
\* after the save was performed.
C8_CheckBeforePersist ==
  \A w \in Writers :
    /\ (writers[w].attempts > 0 \/ writers[w].pc \in {"persist", "monitor", "done"})
         => writers[w].admission.allowed
    /\ SaveDenied(w) =>
         (writers[w].pc = "failed" /\ writers[w].error = "quota" /\ writers[w].attempts = 0)
    /\ writers[w].error = "quota" => SaveDenied(w)
    /\ writers[w].monitored =>
         (writers[w].pc = "done" /\ writers[w].attempts > 0 /\ writers[w].error = "none")

C8_Witness ==
  \E w1, w2 \in Writers :
    /\ SaveDenied(w1) /\ writers[w1].error = "quota" /\ writers[w1].attempts = 0
    /\ writers[w2].pc = "done" /\ writers[w2].monitored /\ writers[w2].attempts = MAX_ATTEMPTS

(* --------------------------- estimateObjectSize ----------------------- *)

\* UTF-16 code units of a string of the record: an ordinary one, a double
\* quote, a line feed, and the two halves of a surrogate pair.
CodeUnits == {"a", "quote", "newline", "hi", "lo"}
Strings == UNION {[1..n -> CodeUnits] : n \in 0..MaxLen}

\* What is handed to estimateObjectSize: a string, the object {t: chars},
\* null, and values JSON.stringify cannot serialize: undefined and a function
\* (it returns undefined), a circular object and a BigInt (it throws).
Serializable == {"string", "object", "null"}
Unserializable == {"undefined", "function", "circular", "bigint"}
Objects ==
  {[kind |-> k, chars |-> c] : k \in {"string", "object"}, c \in Strings}
    \cup {[kind |-> k, chars |-> <<>>] : k \in {"null"} \cup Unserializable}

\* QuoteJSONString: one code unit of the string as it is serialized.
EscapeUnit(c) ==
  IF c = "quote" THEN <<"backslash", "quote">>
  ELSE IF c = "newline" THEN <<"backslash", "n">>
  ELSE IF c \in {"hi", "lo"} THEN <<"backslash", "u", "hex", "hex", "hex", "hex">>
  ELSE <<c>>

RECURSIVE QuoteUnits(_)
\* A surrogate pair is kept as its two units; a lone surrogate is escaped.
QuoteUnits(chars) ==
  IF chars = <<>> THEN <<>>
  ELSE IF Len(chars) >= 2 /\ chars[1] = "hi" /\ chars[2] = "lo"
    THEN <<"hi", "lo">> \o QuoteUnits(SubSeq(chars, 3, Len(chars)))
  ELSE EscapeUnit(Head(chars)) \o QuoteUnits(Tail(chars))

QuoteJSONString(chars) == <<"quote">> \o QuoteUnits(chars) \o <<"quote">>

\* JSON.stringify(obj): it throws, returns undefined, or returns the text.
JsonStringify(obj) ==
  IF obj.kind \in {"circular", "bigint"}
    THEN [threw |-> TRUE, defined |-> FALSE, text |-> <<>>]
  ELSE IF obj.kind \in {"undefined", "function"}
    THEN [threw |-> FALSE, defined |-> FALSE, text |-> <<>>]
  ELSE IF obj.kind = "null"
    THEN [threw |-> FALSE, defined |-> TRUE, text |-> <<"n", "u", "l", "l">>]
  ELSE IF obj.kind = "string"
    THEN [threw |-> FALSE, defined |-> TRUE, text |-> QuoteJSONString(obj.chars)]
  ELSE [threw |-> FALSE, defined |-> TRUE,
        text |-> <<"{", "quote", "t", "quote", ":">> \o QuoteJSONString(obj.chars) \o <<"}">>]

SizeErrorEntry ==
  ConsoleEntry("error", Message("[Storage Monitor] Error estimating object size:", Null))

\* The result of estimateObjectSize: a number of bytes.
ReturnedSize(bytes, entries) ==
  [raised |-> FALSE, value |-> bytes, console |-> entries, notif |-> NoNotification]
RaisedSize(entries) ==
  [raised |-> TRUE, value |-> 0, console |-> entries, notif |-> NoNotification]

EstimateObjectSize_OneBytePerUnit(obj) ==
  LET json == JsonStringify(obj)
  IN  IF json.threw \/ ~json.defined THEN ReturnedSize(0, {SizeErrorEntry})
      ELSE ReturnedSize(Len(json.text), {})

EstimateObjectSize_NoCatch(obj) ==
  LET json == JsonStringify(obj)
  IN  IF json.threw \/ ~json.defined THEN RaisedSize({})
      ELSE ReturnedSize(Len(json.text) * 2, {})

\* jsonString.length * 2; a throw of JSON.stringify, and the TypeError of
\* reading .length of undefined, are caught and give 0.
EstimateObjectSize(obj) ==
  LET json == JsonStringify(obj)
  IN  IF json.threw \/ ~json.defined THEN ReturnedSize(0, {SizeErrorEntry})
      ELSE ReturnedSize(Len(json.text) * 2, {})

\* The caller estimates a record's size ...
CallEstimateObjectSize ==
  /\ Idle
  /\ \E obj \in Objects :
       LET result == EstimateObjectSize(obj)
       IN  /\ call' = [op |-> "estimateObjectSize", args |-> <<>>, quotaInfo |-> Null,
                       result |-> result, obj |-> obj]
           /\ console' = result.console
           /\ notif' = result.notif
  /\ UNCHANGED <<hostVars, writers>>

\* ... and asks for admission with the estimate.
AdmitEstimate ==
  /\ call.op = "estimateObjectSize"
  /\ ~call.result.raised
  /\ LET args == <<call.result.value>>
         result == CanPerformStorageOperation(args)
     IN  /\ call' = [op |-> "canPerformStorageOperation", args |-> args, quotaInfo |-> Null,
                     result |-> result, obj |-> call.obj]
         /\ console' = result.console
         /\ notif' = result.notif
  /\ UNCHANGED <<hostVars, writers>>

SizeNext ==
  \/ CallEstimateObjectSize
  \/ AdmitEstimate
  \/ Return
  \/ HostUsage

SizeSpec == Init /\ [][SizeNext]_vars

\* C11: estimateObjectSize returns exactly twice the number of characters
\* (UTF-16 code units, what .length counts) of the record's JSON form, for
\* every serializable record; the estimate is even and non-negative.
C11_TwiceSerializedLength ==
  (Called("estimateObjectSize") /\ call.obj.kind \in Serializable) =>
    /\ ~call.result.raised
    /\ JsonStringify(call.obj).defined
    /\ call.result.value = 2 * Len(JsonStringify(call.obj).text)
    /\ call.result.value % 2 = 0
    /\ call.result.value >= 0

C11_Witness ==
  /\ Called("estimateObjectSize")
  /\ call.obj = [kind |-> "object", chars |-> <<"quote", "hi">>]
  /\ call.result.value = 32

\* C18: a record that cannot be serialized gets the estimate 0 and no error
\* is raised; a write admitted with that estimate skips the projected-usage
\* rule and is allowed at every level below danger.
C18_UnserializableEstimatesZero ==
  /\ (Called("estimateObjectSize") /\ call.obj.kind \in Unserializable) =>
       (~call.result.raised /\ call.result.value = 0)
  /\ (AdmissionCalled /\ call.obj.kind \in Unserializable) =>
       /\ call.args = <<0>>
       /\ (QuotaAvailable /\ ~UsedAtLeast(95)) => Allowed
       /\ (QuotaAvailable /\ UsedAtLeast(95)) => Denied

C18_Witness ==
  /\ AdmissionCalled /\ call.obj.kind = "circular"
  /\ QuotaAvailable /\ UsedAtLeast(90) /\ ~UsedAtLeast(95)
  /\ Allowed

(* ------------------- claims about the quota reading ------------------- *)

\* The host reports a capacity and leaves the usage out.
UsageMissing ==
  Called("checkStorageQuota") /\ storageApi /\ estimateOk
    /\ hostUsage = Undefined /\ ReadQuota > 0

\* C12 as claimed: if the host reports a capacity but no usage figure,
\* checkStorageQuota returns null rather than a QuotaInfo.
C12_MissingUsageUnavailable ==
  UsageMissing => IsNull(call.result.value)

\* C12 as amended: if the host reports a capacity but no usage figure,
\* checkStorageQuota takes the usage as 0 and returns a QuotaInfo with
\* usage 0, the reported capacity and level safe.
C12_MissingUsageIsZero ==
  UsageMissing =>
    /\ ~call.result.raised
    /\ call.result.value.tag = "QuotaInfo"
    /\ call.result.value.usage = 0
    /\ call.result.value.quota = hostQuota
    /\ call.result.value.level = "safe"

C12_Witness ==
  /\ UsageMissing /\ hostQuota = MaxQuota
  /\ call.result.value.tag = "QuotaInfo" /\ call.result.value.usage = 0

\* C13: every QuotaInfo returned by checkStorageQuota has percentUsed within
\* 0 to 100, for every usage and capacity the host may report.
C13_PercentWithinRange ==
  (Called("checkStorageQuota") /\ ~call.result.raised /\ ~IsNull(call.result.value)) =>
    /\ PercentGE(call.result.value.percentUsed, 0)
    /\ call.result.value.percentUsed.num <= 100 * call.result.value.percentUsed.den

(* ------------------------ serialised save workflow -------------------- *)

\* The critical section around admission check and write: a save starts
\* only when no other save is between its check and its end.
SerialValidate(w, size, valid) ==
  /\ \A v \in Writers : writers[v].pc = "idle"
  /\ SaveValidate(w, size, valid)

\* The store starts below its capacity.
SerialInit ==
  /\ storageApi = TRUE /\ estimateOk = TRUE
  /\ hostUsage \in 0..(SaveQuota - 1) /\ hostQuota = SaveQuota
  /\ notifApi = TRUE /\ notifOk = TRUE
  /\ call = NoCall /\ console = {} /\ notif = NoNotification
  /\ writers = [w \in Writers |-> IdleWriter]

SerialNext ==
  \/ \E w \in Writers, size \in 0..MaxSize, valid \in BOOLEAN : SerialValidate(w, size, valid)
  \/ \E w \in Writers : SaveCheckQuota(w)
  \/ \E w \in Writers, outcome \in PersistOutcomes : SavePersist(w, outcome)
  \/ \E w \in Writers : SaveMonitor(w)
  \/ \E w \in Writers : SaveFinish(w)
  \/ NotificationSettles
  \/ DeleteData
  \/ HostEstimateOk

SerialSpec == SerialInit /\ [][SerialNext]_vars

Writes(w) == writers[w].pc = "persist" /\ writers'[w].pc = "monitor"

NoPrevious ==
  [some |-> FALSE, args |-> <<>>, result |-> Returned(Admission(TRUE, "", Null), {})]

ProbeAdmission ==
  \E args \in SizeArgs :
    LET result == CanPerformStorageOperation(args)
    IN  /\ call' = [op |-> "canPerformStorageOperation", args |-> args, quotaInfo |-> Null,
                    result |-> result,
                    prev |-> IF AdmissionCalled
                               THEN [some |-> TRUE, args |-> call.args, result |-> call.result]
                               ELSE NoPrevious]
        /\ console' = result.console
        /\ notif' = result.notif
        /\ UNCHANGED <<hostVars, writers>>

\* The usages at which the decision can depend on the size: from a store
\* that the largest write cannot fill up to a store over its capacity.
ProbeUsages == (MaxQuota - MaxSize - OverUse)..MaxUsage

\* Records are stored or deleted between two checks.
UsageChanges ==
  /\ \E u \in ProbeUsages : u # hostUsage /\ hostUsage' = u
  /\ UNCHANGED <<storageApi, estimateOk, hostQuota, notifApi, notifOk, call, console, notif, writers>>

\* The capacity is fixed; the host reports usage and capacity.
ProbeInit ==
  /\ storageApi = TRUE /\ estimateOk = TRUE
  /\ hostUsage \in ProbeUsages /\ hostQuota \in (MaxQuota - 1)..MaxQuota
  /\ notifApi = TRUE /\ notifOk = TRUE
  /\ call = NoCall /\ console = {} /\ notif = NoNotification
  /\ writers = [w \in Writers |-> IdleWriter]

ProbeNext ==
  \/ ProbeAdmission
  \/ UsageChanges

ProbeSpec == ProbeInit /\ [][ProbeNext]_vars

PreviousCheck == call.prev.result.value
CurrentCheck == call.result.value
TwoChecks == AdmissionCalled /\ call.prev.some

\* C15: the admission decision is monotone: for a fixed capacity, if a write
\* of size e is denied at usage u, every write of size e' >= e is denied at
\* every usage u' >= u.
C15_DenialMonotone ==
  (/\ TwoChecks
   /\ ~PreviousCheck.allowed
   /\ EstimatedSize(call.args) >= EstimatedSize(call.prev.args)
   /\ CurrentCheck.quotaInfo.quota = PreviousCheck.quotaInfo.quota
   /\ CurrentCheck.quotaInfo.usage >= PreviousCheck.quotaInfo.usage)
  => ~CurrentCheck.allowed

C15_Witness ==
  /\ TwoChecks
  /\ ~PreviousCheck.allowed /\ PreviousCheck.quotaInfo.level = "critical"
  /\ EstimatedSize(call.args) > EstimatedSize(call.prev.args)
  /\ CurrentCheck.quotaInfo.usage > PreviousCheck.quotaInfo.usage
  /\ CurrentCheck.quotaInfo.usage > CurrentCheck.quotaInfo.quota
  /\ ~CurrentCheck.allowed

(* ------------------------- effects of the calls ----------------------- *)

\* C16: canPerformStorageOperation is a pure check: whether it allows or
\* denies, the call emits no storage warning or notification and changes
\* neither the stored usage nor the capacity; a storage warning is emitted
\* only by monitorStorageQuota or showStorageWarning.
C16_AdmissionIsPure ==
  [][/\ AdmissionCalled' =>
          /\ ~WarningEmitted' /\ notif'.state = "none"
          /\ hostUsage' = hostUsage /\ hostQuota' = hostQuota
     /\ WarningEmitted' =>
          (Called("monitorStorageQuota")' \/ Called("showStorageWarning")')]_vars

C16_Witness ==
  /\ AdmissionCalled /\ QuotaAvailable /\ UsedAtLeast(95)
  /\ GivenSize > 0
  /\ Denied
  /\ ~WarningEmitted /\ notif.state = "none"

WarningCalled ==
  /\ Called("showStorageWarning")
  /\ ~IsNull(call.quotaInfo) /\ call.quotaInfo.level # "safe"

\* C17: every call of showStorageWarning with a non-safe QuotaInfo delivers
\* the status message: once the notification has settled, the message is in a
\* shown notification when the notification API is available and creation
\* succeeds, and in a console warning otherwise.
C17_WarningDelivered ==
  (WarningCalled /\ notif.state # "pending") =>
    LET message == GetStorageStatusMessage(call.quotaInfo)
    IN  /\ ~call.result.raised
        /\ IF notifApi /\ notifOk
             THEN notif.state = "shown" /\ notif.message = message
             ELSE StatusEntry(message) \in console

C17_Witness ==
  /\ WarningCalled /\ call.quotaInfo.level = "critical"
  /\ notifApi /\ ~notifOk
  /\ notif.state = "failed"
  /\ StatusEntry(GetStorageStatusMessage(call.quotaInfo)) \in console

=============================================================================
